---- MODULE Spec2Model ----
(***************************************************************************)
(* Model of src/model-stress.py: HttpBenchmark, an asyncio load generator. *)
(* run() creates total_requests tasks, each running make_request() behind  *)
(* an asyncio.Semaphore(concurrency); the tasks update the shared counters *)
(* of the HttpBenchmark object and run() joins them with asyncio.gather.   *)
(*                                                                         *)
(* asyncio is cooperative: a coroutine runs uninterrupted until it awaits. *)
(* Every action below is one such uninterrupted stretch of code.  The only *)
(* awaits of the program are the semaphore acquire (line 43), the POST     *)
(* (line 56) and the gather (line 83).                                     *)
(***************************************************************************)
EXTENDS Integers, Sequences, FiniteSets, TLC

\* ---- bounds of the model -------------------------------------------------
MaxTotal == 3          \* largest --total explored
MaxConcurrency == 2    \* largest --concurrency explored
MaxLines == 2          \* longest dataset file, in lines
MaxLineLen == 2        \* longest dataset line, in characters
MaxElapsed == 1        \* largest end_time - start_time, in clock ticks
MaxDuration == 1       \* largest total_duration of run_benchmark, in clock ticks

\* ---- inputs ---------------------------------------------------------------
Chars == {"a", " "}            \* characters a dataset line is made of
Whitespace == {" "}            \* characters str.strip() removes
StatusCodes == {200, 500}      \* response.status_code: 200 and one non-200

SeqsUpTo(S, n) == UNION {[1..k -> S] : k \in 0..n}

VARIABLES
    total_requests,      \* self.total_requests
    concurrency,         \* self.concurrency
    dataset_file,        \* the file at self.dataset_path, while __init__ reads it
    data_pool,           \* self.data_pool
    success_count,       \* self.success_count
    failure_count,       \* self.failure_count
    total_time,          \* self.total_time
    completed_requests,  \* self.completed_requests
    progress_bar,        \* self.progress_bar.n
    semaphore,           \* value of the asyncio.Semaphore of run()
    tasks,               \* len(tasks) in run()
    run_pc,              \* position of __init__, run_benchmark() and run(): init,
                         \* loaded, start, loop, gather, returned, reported
    pc,                  \* position of each make_request task
    holders,             \* the tasks inside the async with block (line 43)
    data,                \* the prompt of the JSON body of each POST in flight
    outcome,             \* how each task's body ended: none, 200, 500, exception
    elapsed_time,        \* elapsed_time computed by each task (line 59)
    total_duration,      \* total_duration of run_benchmark (line 90)
    qps,                 \* qps of run_benchmark (lines 91-94)
    average_time         \* average_time of run_benchmark (lines 96-99)

vars == <<total_requests, concurrency, dataset_file, data_pool, success_count, failure_count,
          total_time, completed_requests, progress_bar, semaphore, tasks,
          run_pc, pc, holders, data, outcome, elapsed_time,
          total_duration, qps, average_time>>

config == <<total_requests, concurrency, dataset_file, data_pool>>
stats == <<success_count, failure_count, total_time, completed_requests>>
report == <<total_duration, qps, average_time>>

\* the indices i of range(self.total_requests)
Items == 0..(total_requests - 1)

\* ---- load_dataset ---------------------------------------------------------
RECURSIVE lstrip(_)
lstrip(line) ==
    IF line # <<>> /\ Head(line) \in Whitespace THEN lstrip(Tail(line)) ELSE line

RECURSIVE rstrip(_)
rstrip(line) ==
    IF line # <<>> /\ line[Len(line)] \in Whitespace
    THEN rstrip(SubSeq(line, 1, Len(line) - 1))
    ELSE line

strip_left_only(line) == lstrip(line)

strip(line) == rstrip(lstrip(line))

RECURSIVE stripped_lines(_)
stripped_lines(f) ==
    IF f = <<>> THEN <<>>
    ELSE IF strip(Head(f)) # <<>>
         THEN <<strip(Head(f))>> \o stripped_lines(Tail(f))
         ELSE stripped_lines(Tail(f))

\* readable = FALSE: open() or the read raised, the except branch returns []
load_dataset(readable, f) == IF readable THEN stripped_lines(f) ELSE <<>>

\* ---- get_random_prompt ----------------------------------------------------
\* the values random.choice may return; the empty set when ValueError is raised
get_random_prompt_unchecked ==
    IF data_pool = <<>> THEN {<<>>} ELSE {data_pool[k] : k \in 1..Len(data_pool)}

get_random_prompt ==
    IF data_pool = <<>> THEN {} ELSE {data_pool[k] : k \in 1..Len(data_pool)}

NoData == <<>>

\* ---- the semaphore (async with semaphore) ----------------------------------
NewSemaphoreAtLeastOne(value) == IF value < 1 THEN 1 ELSE value

NewSemaphore(value) == value

lockedNever == FALSE

locked == semaphore = 0

\* __aenter__: acquire() takes one permit
acquire_none(value) == value

acquire(value) == value - 1

\* the tasks inside the async with block: task i enters it with its permit
\* and leaves it on every exit of the body
aenter(inside, i) == inside \cup {i}

aexit_unless_raised(inside, i, raised) == IF raised THEN inside ELSE inside \ {i}

aexit(inside, i, raised) == inside \ {i}

\* __aexit__: release() runs whether or not the body raised
exit_semaphore_leak(value, raised) == IF raised THEN value ELSE value + 1

exit_semaphore(value, raised) == value + 1

\* ---- the statistics -------------------------------------------------------
\* lines 59-68: a response arrived with the given status after dt ticks
\* a lost update: the counter is written from a value read before the others ran
response_stats_stale(status, dt) ==
    [total_time         |-> total_time + dt,
     completed_requests |-> completed_requests + 1,
     success_count      |-> IF status = 200 THEN 1 ELSE success_count,
     failure_count      |-> IF status = 200 THEN failure_count ELSE 1]

response_stats_no_time(status, dt) ==
    [total_time         |-> total_time,
     completed_requests |-> completed_requests + 1,
     success_count      |-> IF status = 200 THEN success_count + 1 ELSE success_count,
     failure_count      |-> IF status = 200 THEN failure_count ELSE failure_count + 1]

response_stats(status, dt) ==
    [total_time         |-> total_time + dt,
     completed_requests |-> completed_requests + 1,
     success_count      |-> IF status = 200 THEN success_count + 1 ELSE success_count,
     failure_count      |-> IF status = 200 THEN failure_count ELSE failure_count + 1]

\* lines 70-72: the except branch
exception_stats_none ==
    [total_time         |-> total_time,
     completed_requests |-> completed_requests,
     success_count      |-> success_count,
     failure_count      |-> failure_count]

exception_stats_completed ==
    [total_time         |-> total_time,
     completed_requests |-> completed_requests + 1,
     success_count      |-> success_count,
     failure_count      |-> failure_count + 1]

exception_stats_twice ==
    [total_time         |-> total_time,
     completed_requests |-> completed_requests,
     success_count      |-> success_count,
     failure_count      |-> failure_count + 2]

exception_stats ==
    [total_time         |-> total_time,
     completed_requests |-> completed_requests,
     success_count      |-> success_count,
     failure_count      |-> failure_count + 1]

SetStats(s) ==
    /\ total_time' = s.total_time
    /\ completed_requests' = s.completed_requests
    /\ success_count' = s.success_count
    /\ failure_count' = s.failure_count

\* line 74: progress_bar.update(1) in the finally branch
progress_update_on_success(n, raised) == IF raised THEN n ELSE n + 1

progress_update(n, raised) == n + 1

\* ---- the report of run_benchmark ---------------------------------------------
\* a / b of two numbers is kept as the fraction in lowest terms <<n, d>>;
\* a division by zero raises ZeroDivisionError
RECURSIVE gcd(_, _)
gcd(a, b) == IF b = 0 THEN a ELSE gcd(b, a % b)

Zero == <<0, 1>>
ZeroDivisionError == <<1, 0>>

Div(a, b) ==
    IF b = 0 THEN ZeroDivisionError
    ELSE <<a \div gcd(a, b), b \div gcd(a, b)>>

\* lines 91-94
qps_of(duration) ==
    IF duration > 0 THEN Div(completed_requests, duration) ELSE Zero

\* lines 96-99
average_time_unguarded == Div(total_time, success_count)

average_time_of ==
    IF success_count > 0 THEN Div(total_time, success_count) ELSE Zero

\* ---- Init: the object after __init__ ---------------------------------------
\* the files __init__ may find at dataset_path: the lines of a readable file,
\* or a file that open() or the read fails on
DatasetFiles ==
    {[status |-> "readable", lines |-> f] :
        f \in SeqsUpTo(SeqsUpTo(Chars, MaxLineLen), MaxLines)}
    \cup {[status |-> "unreadable", lines |-> <<>>]}

\* the files the runs are explored from: lines that load as the prompts "a"
\* and "aa", and a blank line
SampleLines == {<<" ">>, <<"a", " ">>, <<" ", "a", "a">>}

SampleFiles ==
    {[status |-> "readable", lines |-> f] : f \in SeqsUpTo(SampleLines, MaxLines)}
    \cup {[status |-> "unreadable", lines |-> <<>>]}

\* after __init__ nothing opens the file again: it is no part of the state
NoFile == [status |-> "unused", lines |-> <<>>]

Init ==
    /\ total_requests \in 0..MaxTotal
    /\ concurrency \in 0..MaxConcurrency
    /\ \E file \in SampleFiles :
           data_pool = load_dataset(file.status = "readable", file.lines)
    /\ dataset_file = NoFile
    /\ success_count = 0
    /\ failure_count = 0
    /\ total_time = 0
    /\ completed_requests = 0
    /\ progress_bar = 0
    /\ semaphore = 0
    /\ tasks = 0
    /\ run_pc = "start"
    /\ pc = [i \in Items |-> "uncreated"]
    /\ holders = {}
    /\ data = [i \in Items |-> NoData]
    /\ outcome = [i \in Items |-> "none"]
    /\ elapsed_time = [i \in Items |-> 0]
    /\ total_duration = 0
    /\ qps = Zero
    /\ average_time = Zero

\* ---- __init__, step by step ----------------------------------------------------
\* lines 12-19: the fields are set, the dataset is not loaded yet
LoadInit ==
    /\ total_requests \in 0..MaxTotal
    /\ concurrency \in 0..MaxConcurrency
    /\ dataset_file \in DatasetFiles
    /\ data_pool = <<>>
    /\ success_count = 0
    /\ failure_count = 0
    /\ total_time = 0
    /\ completed_requests = 0
    /\ progress_bar = 0
    /\ semaphore = 0
    /\ tasks = 0
    /\ run_pc = "init"
    /\ pc = [i \in Items |-> "uncreated"]
    /\ holders = {}
    /\ data = [i \in Items |-> NoData]
    /\ outcome = [i \in Items |-> "none"]
    /\ elapsed_time = [i \in Items |-> 0]
    /\ total_duration = 0
    /\ qps = Zero
    /\ average_time = Zero

\* line 20: self.data_pool = self.load_dataset()
LoadDataset ==
    /\ run_pc = "init"
    /\ data_pool' = load_dataset(dataset_file.status = "readable", dataset_file.lines)
    /\ run_pc' = "loaded"
    /\ UNCHANGED <<total_requests, concurrency, dataset_file, report, stats,
                   progress_bar, semaphore, tasks, pc, holders, data, outcome, elapsed_time>>

\* line 21: the progress bar is created and __init__ returns
Constructed ==
    /\ run_pc = "loaded"
    /\ progress_bar' = 0
    /\ dataset_file' = NoFile
    /\ run_pc' = "start"
    /\ UNCHANGED <<total_requests, concurrency, data_pool, report, stats,
                   semaphore, tasks, pc, holders, data, outcome, elapsed_time>>

LoadNext == LoadDataset \/ Constructed

\* the construction of the object alone, from every dataset file
LoadSpec == LoadInit /\ [][LoadNext]_vars

\* ---- run() ----------------------------------------------------------------
\* line 77-79
RunStart ==
    /\ run_pc = "start"
    /\ semaphore' = NewSemaphore(concurrency)
    /\ run_pc' = "loop"
    /\ UNCHANGED <<config, report, stats, progress_bar, tasks, pc, holders, data, outcome, elapsed_time>>

\* lines 80-82: one iteration of the for loop
CreateTask ==
    /\ run_pc = "loop"
    /\ tasks < total_requests
    /\ pc' = [pc EXCEPT ![tasks] = "created"]
    /\ tasks' = tasks + 1
    /\ UNCHANGED <<config, report, stats, progress_bar, semaphore, run_pc, holders,
                   data, outcome, elapsed_time>>

\* line 83: the loop is over, run() awaits the gather and the tasks may run
AwaitGather ==
    /\ run_pc = "loop"
    /\ tasks = total_requests
    /\ run_pc' = "gather"
    /\ UNCHANGED <<config, report, stats, progress_bar, semaphore, tasks, pc, holders, data, outcome, elapsed_time>>

gather_done_any == \E i \in Items : pc[i] = "done"

gather_done == \A i \in Items : pc[i] = "done"

\* line 83: every task is done, gather resolves and run() returns
RunReturn ==
    /\ run_pc = "gather"
    /\ gather_done
    /\ run_pc' = "returned"
    /\ UNCHANGED <<config, report, stats, progress_bar, semaphore, tasks, pc, holders, data, outcome, elapsed_time>>

\* lines 88-99 of run_benchmark: asyncio.run(self.run()) is over, the clock is
\* read and the two figures of the report are computed
Report ==
    /\ run_pc = "returned"
    /\ \E duration \in 0..MaxDuration :
          /\ total_duration' = duration
          /\ qps' = qps_of(duration)
    /\ average_time' = average_time_of
    /\ run_pc' = "reported"
    /\ UNCHANGED <<config, stats, progress_bar, semaphore, tasks, pc, holders, data, outcome, elapsed_time>>

\* lines 80-83: the loop of run() has no await, so the tasks made by
\* create_task take their first step only once run() is suspended in the gather
tasks_may_run_eagerly == run_pc \in {"loop", "gather"}

tasks_may_run == run_pc = "gather"

\* ---- make_request() -------------------------------------------------------
\* lines 70-74 and the exit of the async with, for a task holding a permit
\* when the semaphore's value is v
Raise(i, v) ==
    /\ SetStats(exception_stats)
    /\ progress_bar' = progress_update(progress_bar, TRUE)
    /\ semaphore' = exit_semaphore(v, TRUE)
    /\ holders' = aexit(aenter(holders, i), i, TRUE)
    /\ pc' = [pc EXCEPT ![i] = "done"]
    /\ data' = [data EXCEPT ![i] = NoData]
    /\ outcome' = [outcome EXCEPT ![i] = "exception"]
    /\ UNCHANGED <<config, report, tasks, run_pc, elapsed_time>>

\* lines 44-56, entered with the permit taken (the semaphore's value is v):
\* sample a prompt, build the body and suspend in the POST, or raise
Body(i, v) ==
    IF get_random_prompt = {}
    THEN Raise(i, v)
    ELSE /\ \E prompt \in get_random_prompt : data' = [data EXCEPT ![i] = prompt]
         /\ semaphore' = v
         /\ holders' = aenter(holders, i)
         /\ pc' = [pc EXCEPT ![i] = "posting"]
         /\ UNCHANGED <<config, report, stats, progress_bar, tasks, run_pc, outcome, elapsed_time>>

\* line 43, first step of the task: take a permit and run the body, or
\* suspend in acquire()
Begin(i) ==
    /\ tasks_may_run
    /\ pc[i] = "created"
    /\ IF locked
       THEN /\ pc' = [pc EXCEPT ![i] = "waiting"]
            /\ UNCHANGED <<config, report, stats, progress_bar, semaphore, tasks, run_pc, holders,
                           data, outcome, elapsed_time>>
       ELSE Body(i, acquire(semaphore))

\* line 43, a suspended acquire() resumes once a permit is free
Wake(i) ==
    /\ tasks_may_run
    /\ pc[i] = "waiting"
    /\ ~locked
    /\ Body(i, acquire(semaphore))

\* lines 56-68, 74: the POST resolves with a response
Respond(i) ==
    /\ tasks_may_run
    /\ pc[i] = "posting"
    /\ \E status \in StatusCodes, dt \in 0..MaxElapsed :
          /\ SetStats(response_stats(status, dt))
          /\ elapsed_time' = [elapsed_time EXCEPT ![i] = dt]
          /\ outcome' = [outcome EXCEPT ![i] = IF status = 200 THEN "200" ELSE "non200"]
    /\ progress_bar' = progress_update(progress_bar, FALSE)
    /\ semaphore' = exit_semaphore(semaphore, FALSE)
    /\ holders' = aexit(holders, i, FALSE)
    /\ pc' = [pc EXCEPT ![i] = "done"]
    /\ data' = [data EXCEPT ![i] = NoData]
    /\ UNCHANGED <<config, report, tasks, run_pc>>

\* lines 56, 70-74: the POST raises (connection error, 60 s timeout, ...)
Fail(i) ==
    /\ tasks_may_run
    /\ pc[i] = "posting"
    /\ Raise(i, semaphore)

Next ==
    \/ RunStart
    \/ CreateTask
    \/ AwaitGather
    \/ RunReturn
    \/ Report
    \/ \E i \in Items : Begin(i)
    \/ \E i \in Items : Wake(i)
    \/ \E i \in Items : Respond(i)
    \/ \E i \in Items : Fail(i)

Spec == Init /\ [][Next]_vars

\* the event loop runs a ready task whenever there is one, and every POST
\* resolves (httpx.Timeout(60.0), line 78)
FairSpec == Spec /\ WF_vars(Next)

TypeOK ==
    /\ total_requests \in 0..MaxTotal
    /\ concurrency \in 0..MaxConcurrency
    /\ run_pc \in {"init", "loaded", "start", "loop", "gather", "returned", "reported"}
    /\ dataset_file \in DatasetFiles \cup SampleFiles \cup {NoFile}
    /\ total_duration \in 0..MaxDuration
    /\ pc \in [Items -> {"uncreated", "created", "waiting", "posting", "done"}]
    /\ outcome \in [Items -> {"none", "200", "non200", "exception"}]
    /\ semaphore \in 0..MaxConcurrency
    /\ tasks \in 0..total_requests
    /\ holders \subseteq Items

\* ---- vocabulary of the properties ------------------------------------------
\* tasks suspended in the POST: they hold a permit and their call is unresolved
InFlight == {i \in Items : pc[i] = "posting"}
\* tasks whose body is over: outcome recorded, finally run, permit released
Finished == {i \in Items : pc[i] = "done"}
Ended(o) == {i \in Items : outcome[i] = o}
\* run() has returned; run_benchmark may already have computed the report
Returned == run_pc \in {"returned", "reported"}
Reported == run_pc = "reported"

RECURSIVE SumElapsed(_)
SumElapsed(S) ==
    IF S = {} THEN 0
    ELSE LET i == CHOOSE x \in S : TRUE IN elapsed_time[i] + SumElapsed(S \ {i})

\* C1: with 1 <= concurrency < total_requests, at most concurrency tasks have
\* an issued and unresolved POST, in every reachable state.
C1_AtMostCInFlight ==
    (1 <= concurrency /\ concurrency < total_requests)
        => Cardinality(InFlight) <= concurrency

C1_Witness ==
    /\ 1 <= concurrency /\ concurrency < total_requests
    /\ Cardinality(InFlight) = concurrency
    /\ \E i \in Items : pc[i] = "waiting"
    /\ Ended("exception") # {}

\* C2: once run() has returned, completed_requests equals
\* success_count + failure_count, whatever the outcomes were.
C2_CompletedIsSuccessPlusFailure ==
    Returned => completed_requests = success_count + failure_count

\* C3: once run() has returned, completed_requests equals total_requests.
C3_CompletedIsTotal ==
    Returned => completed_requests = total_requests

\* C4: total_time is the sum of the elapsed times of the tasks that ended
\* with HTTP 200 only; a failed task leaves it unchanged.
C4_TotalTimeOfSuccessesOnly ==
    Returned => total_time = SumElapsed(Ended("200"))

\* C5: under fair scheduling and with concurrency >= 1, every task reaches a
\* terminal outcome and run() returns.
C5_RunReturns ==
    (concurrency >= 1) ~> (Returned /\ \A i \in Items : outcome[i] # "none")

C5_Witness ==
    /\ Returned
    /\ 1 <= concurrency /\ concurrency < total_requests
    /\ Ended("exception") # {}
    /\ Ended("200") # {}

\* C6: whenever run() has returned, every task has finished its body with an
\* outcome recorded.
C6_ReturnedOnlyWhenAllDone ==
    Returned => \A i \in Items : pc[i] = "done" /\ outcome[i] # "none"

C6_Witness ==
    /\ Returned
    /\ total_requests >= 3
    /\ Ended("200") # {} /\ Ended("non200") # {} /\ Ended("exception") # {}

\* C7: from the creation of the semaphore on, free permits plus tasks holding
\* a permit equals concurrency, and all permits are free when run() returns.
C7_PermitsConserved ==
    /\ run_pc # "start" => semaphore + Cardinality(InFlight) = concurrency
    /\ Returned => semaphore = concurrency

C7_Witness ==
    /\ Returned
    /\ semaphore = concurrency
    /\ concurrency >= 1
    /\ total_requests > concurrency
    /\ Ended("exception") # {} /\ Ended("non200") # {}

\* C8: a step in which task i ends with an exception adds exactly one to
\* failure_count, leaves success_count alone and changes neither run() nor
\* the position or outcome of any other task.
C8_ExceptionContained ==
    [][\A i \in Items :
          (outcome[i] = "none" /\ outcome'[i] = "exception")
              => /\ failure_count' = failure_count + 1
                 /\ success_count' = success_count
                 /\ run_pc' = run_pc
                 /\ \A j \in Items \ {i} :
                        pc'[j] = pc[j] /\ outcome'[j] = outcome[j]]_vars

C8_Witness ==
    /\ Returned
    /\ Cardinality(Ended("exception")) = 1
    /\ Cardinality(Ended("200")) = total_requests - 1
    /\ failure_count = 1
    /\ success_count = total_requests - 1
    /\ total_requests >= 2

\* C9: with an empty pool no task ever issues a POST, every task ends as a
\* failure, and (with concurrency >= 1, under fair scheduling) run() returns
\* with success_count = 0 and failure_count = total_requests.
C9_EmptyPoolSafe ==
    data_pool = <<>> =>
        /\ InFlight = {}
        /\ \A i \in Items : outcome[i] \in {"none", "exception"}
        /\ completed_requests = 0
        /\ success_count = 0
        /\ failure_count = Cardinality(Finished)
        /\ Returned => failure_count = total_requests

C9_EmptyPool ==
    /\ []C9_EmptyPoolSafe
    /\ (data_pool = <<>> /\ concurrency >= 1) ~> Returned

C9_Witness ==
    /\ data_pool = <<>>
    /\ Returned
    /\ total_requests >= 2
    /\ failure_count = total_requests
    /\ success_count = 0

\* C10: the progress value equals the number of tasks that have finished
\* their body, and equals total_requests when run() has returned.
C10_ProgressCountsFinished ==
    /\ progress_bar = Cardinality(Finished)
    /\ Returned => progress_bar = total_requests

C10_Witness ==
    /\ Returned
    /\ progress_bar = total_requests
    /\ total_requests >= 3
    /\ Ended("200") # {} /\ Ended("non200") # {} /\ Ended("exception") # {}

\* C11: the reported qps is (success_count + failure_count) / total_duration
\* when total_duration > 0, and 0 when total_duration = 0.
C11_QpsOfCompleted ==
    Reported =>
        qps = IF total_duration > 0
              THEN Div(success_count + failure_count, total_duration)
              ELSE Zero

\* C12: when success_count = 0 at the report, average_time is exactly 0 (no
\* division fault) and failure_count equals total_requests.
C12_NoSuccessAverageZero ==
    (Reported /\ success_count = 0)
        => average_time = Zero /\ failure_count = total_requests

C12_Witness ==
    /\ Reported
    /\ success_count = 0
    /\ total_requests >= 2
    /\ Ended("non200") # {} /\ Ended("exception") # {}
    /\ total_time > 0
    /\ average_time = Zero

\* C13: when the pool is not empty and every call of a run of at least one
\* request returned 200, failure_count = 0, success_count = total_requests and
\* average_time is the sum of the elapsed times divided by total_requests.
C13_AllSuccessMean ==
    (Reported /\ total_requests >= 1 /\ data_pool # <<>>
              /\ \A i \in Items : outcome[i] = "200")
        => /\ failure_count = 0
           /\ success_count = total_requests
           /\ average_time = Div(SumElapsed(Items), total_requests)

C13_Witness ==
    /\ Reported
    /\ total_requests >= 3
    /\ concurrency < total_requests
    /\ \A i \in Items : outcome[i] = "200"
    /\ \E i, j \in Items : elapsed_time[i] # elapsed_time[j]
    /\ average_time = Div(SumElapsed(Items), total_requests)
    /\ average_time[2] # 1

\* what load is to return, said without load_dataset: line k of the file is
\* kept when it has a character that is no whitespace; it is kept from its
\* first to its last such character, and the kept lines keep their order
NonBlank(line) == \E k \in 1..Len(line) : line[k] \notin Whitespace
Trimmed(line) ==
    LET ink == {k \in 1..Len(line) : line[k] \notin Whitespace}
        first == CHOOSE k \in ink : \A m \in ink : k <= m
        last == CHOOSE k \in ink : \A m \in ink : k >= m
    IN  SubSeq(line, first, last)
KeptLines(lines) == {k \in 1..Len(lines) : NonBlank(lines[k])}
NthKept(lines, j) ==
    CHOOSE k \in KeptLines(lines) :
        Cardinality({m \in KeptLines(lines) : m <= k}) = j

\* C14: the loaded pool is exactly the lines of the file that are not empty
\* after stripping, each stripped, in the order of the file; no entry of the
\* pool is the empty string.
C14_LoadKeepsStrippedNonBlank ==
    /\ (run_pc = "loaded" /\ dataset_file.status = "readable") =>
          /\ Len(data_pool) = Cardinality(KeptLines(dataset_file.lines))
          /\ \A j \in 1..Len(data_pool) :
                 data_pool[j] = Trimmed(dataset_file.lines[NthKept(dataset_file.lines, j)])
    /\ \A j \in 1..Len(data_pool) : data_pool[j] # <<>>

\* a file with a line that ends in whitespace and a blank line, which is dropped
C14_Witness ==
    /\ run_pc = "loaded"
    /\ dataset_file.status = "readable"
    /\ Len(dataset_file.lines) = 2
    /\ \E k \in 1..2 : dataset_file.lines[k] = <<"a", " ">>
    /\ \E k \in 1..2 : dataset_file.lines[k] = <<" ">>
    /\ data_pool = << <<"a">> >>

Responded == Ended("200") \cup Ended("non200")

\* C15: under every interleaving no update of the shared statistics is lost:
\* success_count and failure_count are the numbers of tasks that ended with
\* each outcome, and total_time is the sum of what the tasks added to it.
C15_NoLostUpdate ==
    /\ success_count = Cardinality(Ended("200"))
    /\ failure_count = Cardinality(Ended("non200")) + Cardinality(Ended("exception"))
    /\ total_time = SumElapsed(Responded)

C15_Witness ==
    /\ Returned
    /\ concurrency >= 2
    /\ Cardinality(Ended("200")) >= 2
    /\ success_count = Cardinality(Ended("200"))
    /\ Ended("non200") # {} /\ failure_count = 1

\* C16: no task takes a permit or issues its POST before run() has created
\* all total_requests tasks; from then on a task that has not entered its
\* body can take its step as soon as a permit is free.
C16_AllCreatedBeforeAnyRuns ==
    /\ \A i \in Items :
          pc[i] \in {"waiting", "posting", "done"} => tasks = total_requests
    /\ \A i \in Items :
          (run_pc = "gather" /\ pc[i] \in {"created", "waiting"} /\ semaphore > 0)
              => ENABLED (Begin(i) \/ Wake(i))

C16_Witness ==
    /\ total_requests >= 3
    /\ tasks = total_requests
    /\ \E i, j, k \in Items :
          pc[i] = "posting" /\ pc[j] = "waiting" /\ pc[k] = "created"

\* C17: a task that holds a permit while suspended is suspended in the POST:
\* the permits taken are those of the tasks inside the async with block, and
\* each of these is in its POST.
C17_PermitHeldOnlyAcrossPost ==
    /\ \A i \in holders : pc[i] = "posting"
    /\ run_pc \notin {"init", "loaded", "start"}
          => concurrency - semaphore = Cardinality(holders)

C17_Witness ==
    /\ Cardinality(holders) >= 2
    /\ semaphore = 0
    /\ \E i \in Items : pc[i] = "waiting"
    /\ \A i \in holders : pc[i] = "posting"

\* C18: success_count + failure_count is the number of tasks that have
\* finished their body, total_requests once run() has returned, and the step
\* that finishes a task adds one to exactly one of the two: to success_count
\* for a 200, to failure_count for a non-200 or an exception.
C18_Safe ==
    /\ success_count + failure_count = Cardinality(Finished)
    /\ Returned => success_count + failure_count = total_requests

C18_ExactlyOneIncrement ==
    /\ []C18_Safe
    /\ [][\A i \in Items :
            (pc[i] # "done" /\ pc'[i] = "done") =>
                \/ /\ outcome'[i] = "200"
                   /\ success_count' = success_count + 1
                   /\ failure_count' = failure_count
                \/ /\ outcome'[i] \in {"non200", "exception"}
                   /\ success_count' = success_count
                   /\ failure_count' = failure_count + 1]_vars

C18_Witness ==
    /\ Returned
    /\ total_requests >= 3
    /\ success_count = 1 /\ failure_count = 2
    /\ Ended("200") # {} /\ Ended("non200") # {} /\ Ended("exception") # {}

\* C19: completed_requests and total_time change only in the step of a task
\* that received a response, together with its success or failure increment;
\* completed_requests is the number of tasks that received a response, and
\* 0 <= success_count <= completed_requests <= success_count + failure_count
\* <= total_requests.
C19_Safe ==
    /\ completed_requests = Cardinality(Responded)
    /\ 0 <= success_count
    /\ success_count <= completed_requests
    /\ completed_requests <= success_count + failure_count
    /\ success_count + failure_count <= total_requests

C19_CompletedCountsResponses ==
    /\ []C19_Safe
    /\ [][(completed_requests' # completed_requests \/ total_time' # total_time) =>
            \E i \in Items :
               /\ pc[i] = "posting"
               /\ outcome'[i] \in {"200", "non200"}
               /\ completed_requests' = completed_requests + 1
               /\ total_time' = total_time + elapsed_time'[i]
               /\ success_count' + failure_count' = success_count + failure_count + 1]_vars

C19_Witness ==
    /\ Returned
    /\ Ended("exception") # {} /\ Ended("200") # {} /\ Ended("non200") # {}
    /\ completed_requests = 2
    /\ success_count = 1
    /\ success_count + failure_count = 3

\* C20: with concurrency = 0 and total_requests >= 1 no task ever takes a
\* permit, no POST is issued, every counter stays 0 and run() never returns.
C20_ZeroConcurrencyHangs ==
    (concurrency = 0 /\ total_requests >= 1) =>
        /\ holders = {}
        /\ InFlight = {}
        /\ Finished = {}
        /\ success_count = 0 /\ failure_count = 0
        /\ completed_requests = 0 /\ total_time = 0
        /\ progress_bar = 0
        /\ ~Returned

\* every task is suspended in acquire() and run() in the gather: nothing is
\* left to run
C20_Witness ==
    /\ concurrency = 0
    /\ total_requests >= 2
    /\ run_pc = "gather"
    /\ \A i \in Items : pc[i] = "waiting"
    /\ ~ ENABLED Next
====
